---- MODULE Spec2Model ----
(***************************************************************************)
(* Model of viu_media/libs/player/mpv/player.py: the MpvPlayer strategy    *)
(* selector (play), its four blocking playback paths, the non-blocking     *)
(* IPC launch (play_with_ipc), the mpv option builder and the parser of    *)
(* mpv's "AV:" progress lines.                                             *)
(*                                                                         *)
(* Strings are TLA+ strings, built with \o as the code builds them with    *)
(* "+" and f-strings.  A string the code splits (config.args,              *)
(* config.pre_args, the captured stdout) is a sequence of chunks, a chunk  *)
(* being either the separator or a piece of text that holds no separator.  *)
(* Launching a well-formed command line is assumed to succeed (OS-level    *)
(* spawn failures are outside the model).                                  *)
(***************************************************************************)
EXTENDS Integers, Sequences, FiniteSets, TLC

VARIABLES termux, installed, executable, config, pc, call, launched, child,
          handles, result

vars == <<termux, installed, executable, config, pc, call, launched, child,
          handles, result>>

envVars == <<termux, installed, executable, config>>

(***************************************************************************)
(* Bounds of the model.                                                    *)
(***************************************************************************)
MaxOut == 3

MaxHeaders == 2

MaxSubs == 2

MaxArgsLen == 3

MaxHandles == 1

(***************************************************************************)
(* Values.                                                                 *)
(***************************************************************************)
\* Python's None.
None == "<None>"

SeqsUpTo(S, n) == UNION {[1..k -> S] : k \in 0..n}

\* What shutil.which returns for a command that is on the search path.
WhichPath(name) == "/usr/bin/" \o name

shutil_which(name) == IF name \in installed THEN WhichPath(name) ELSE None

TorrentUrl == "magnet:?xt=urn:btih:c12fe1c06bba254a9dc9f519b335aa7c1367a88a"

EmbeddedTorrentUrl == "https://host/get?m=magnet:?xt=urn:btih:c12fe1c06bba254a9dc9f519b335aa7c1367a88a"

YoutubeUrl == "https://www.youtube.com/watch?v=abc"

PlainUrl == "https://host/ep1.m3u8"

Urls == {TorrentUrl, EmbeddedTorrentUrl, YoutubeUrl, PlainUrl}

\* TORRENT_REGEX.match(url): the pattern matches at the start of the URL.
TORRENT_REGEX_match(url) == url = TorrentUrl

\* TORRENT_REGEX.search(url): the pattern matches somewhere in the URL.
TORRENT_REGEX_search(url) == url \in {TorrentUrl, EmbeddedTorrentUrl}

\* YOUTUBE_REGEX.match(url)
YOUTUBE_REGEX_match(url) == url = YoutubeUrl

\* str.split(sep) on a chunk sequence: the pieces between separators, each a
\* chunk sequence; n separators give n + 1 pieces, empty pieces included.
RECURSIVE SplitSeq(_, _)
SplitSeq(s, sep) ==
  IF s = <<>> THEN << <<>> >>
  ELSE IF Head(s) = sep THEN << <<>> >> \o SplitSeq(Tail(s), sep)
  ELSE LET r == SplitSeq(Tail(s), sep)
       IN  << <<Head(s)>> \o Head(r) >> \o Tail(r)

\* The text of a sequence of text chunks.
RECURSIVE Cat(_)
Cat(chunks) == IF chunks = <<>> THEN "" ELSE Head(chunks) \o Cat(Tail(chunks))

\* text.split(",") as a list of strings.
SplitComma(text) ==
  LET pieces == SplitSeq(text, ",")
  IN  [i \in 1..Len(pieces) |-> Cat(pieces[i])]

\* sep.join(items)
RECURSIVE Join(_, _)
Join(items, sep) ==
  IF items = <<>> THEN ""
  ELSE IF Len(items) = 1 THEN items[1]
  ELSE items[1] \o sep \o Join(Tail(items), sep)

(***************************************************************************)
(* Captured output: chunks of text.                                        *)
(***************************************************************************)
NL == [kind |-> "nl", elapsed |-> "", total |-> "", percent |-> ""]

WS == [kind |-> "ws", elapsed |-> "", total |-> "", percent |-> ""]

Txt == [kind |-> "text", elapsed |-> "", total |-> "", percent |-> ""]

\* The text "AV: <e> / <t> (<p>%)" with e, t over [0-9:] and p over [0-9].
Av(e, t, p) == [kind |-> "av", elapsed |-> e, total |-> t, percent |-> p]

Av1 == Av("00:01:00", "00:10:00", "10")

Av2 == Av("00:02:30", "00:10:00", "25")

Av0 == Av("", "00:10:00", "")

OutChunks == {NL, WS, Txt, Av1, Av2, Av0}

\* line.strip(): leading and trailing whitespace removed.
RECURSIVE LStrip(_)
LStrip(line) ==
  IF line # <<>> /\ Head(line) = WS THEN LStrip(Tail(line)) ELSE line

RECURSIVE RStrip(_)
RStrip(line) ==
  IF line # <<>> /\ line[Len(line)] = WS
  THEN RStrip(SubSeq(line, 1, Len(line) - 1))
  ELSE line

Strip(line) == LStrip(RStrip(line))

\* re.search finding nothing.
NoMatch == [kind |-> "nomatch", elapsed |-> "", total |-> "", percent |-> ""]

\* MPV_AV_TIME_PATTERN.search(line): the leftmost match in the line, if any.
RECURSIVE MPV_AV_TIME_PATTERN_search(_)
MPV_AV_TIME_PATTERN_search(line) ==
  IF line = <<>> THEN NoMatch
  ELSE IF Head(line).kind = "av" THEN Head(line)
  ELSE MPV_AV_TIME_PATTERN_search(Tail(line))

\* reversed(seq)
Reversed(s) == [i \in 1..Len(s) |-> s[Len(s) + 1 - i]]

(***************************************************************************)
(* Requests and results.                                                   *)
(***************************************************************************)
PlayerParams(url, episode, syncplay, headers, subtitles, start_time, title) ==
  [url |-> url, episode |-> episode, syncplay |-> syncplay,
   headers |-> headers, subtitles |-> subtitles,
   start_time |-> start_time, title |-> title]

PlayerResult(episode, total_time, stop_time) ==
  [kind |-> "PlayerResult", episode |-> episode,
   total_time |-> total_time, stop_time |-> stop_time]

ViuError(message) == [kind |-> "ViuError", message |-> message]

\* What subprocess.Popen raises for an argument list holding None.
TypeError == [kind |-> "TypeError"]

\* The subprocess.Popen object returned to the caller: which process it is
\* and whether that process was running when the call returned.
PopenHandle(i, alive) == [kind |-> "Popen", handle |-> i, alive |-> alive]

NoResult == [kind |-> "none"]

NoParams == PlayerParams("", "", FALSE, <<>>, <<>>, None, None)

NoCall == [op |-> "none", params |-> NoParams, socket_path |-> None]

NoChild == [status |-> "none", capture |-> FALSE, stdout |-> <<>>]

(***************************************************************************)
(* Helpers of MpvPlayer.                                                   *)
(***************************************************************************)
_mpv_config_dir == "~/.config/mpv"

_pre_args == IF config.pre_args # <<>> THEN SplitComma(config.pre_args) ELSE <<>>

HeaderStr(headers) ==
  Join([i \in 1..Len(headers) |-> headers[i][1] \o ":" \o headers[i][2]], ",")

Truthy(x) == x # None /\ x # ""

SubtitleFlags(subs) == [i \in 1..Len(subs) |-> "--sub-file=" \o subs[i]]

_create_mpv_cli_options_swapped(params) ==
  (IF params.headers # <<>>
     THEN <<"--http-header-fields=" \o HeaderStr(params.headers)>> ELSE <<>>)
  \o SubtitleFlags(params.subtitles)
  \o (IF Truthy(params.title) THEN <<"--title=" \o params.title>> ELSE <<>>)
  \o (IF Truthy(params.start_time)
        THEN <<"--start=" \o params.start_time>> ELSE <<>>)
  \o (IF config.args # <<>> THEN SplitComma(config.args) ELSE <<>>)

_create_mpv_cli_options(params) ==
  (IF params.headers # <<>>
     THEN <<"--http-header-fields=" \o HeaderStr(params.headers)>> ELSE <<>>)
  \o SubtitleFlags(params.subtitles)
  \o (IF Truthy(params.start_time)
        THEN <<"--start=" \o params.start_time>> ELSE <<>>)
  \o (IF Truthy(params.title) THEN <<"--title=" \o params.title>> ELSE <<>>)
  \o (IF config.args # <<>> THEN SplitComma(config.args) ELSE <<>>)

_base_mpv_args(params) ==
  <<executable, "--config-dir=" \o _mpv_config_dir, params.url>>
  \o _create_mpv_cli_options(params)

(***************************************************************************)
(* The process launcher.                                                   *)
(***************************************************************************)
\* A call fails before anything is handed to the launcher.
Raise(err) ==
  /\ result' = err
  /\ pc' = "idle"
  /\ launched' = <<>>
  /\ child' = NoChild
  /\ UNCHANGED handles

\* subprocess.run(args, ...): the process is started and the caller blocks at
\* `at` until it has exited.
subprocess_run(args, capture, at) ==
  /\ launched' = <<args>>
  /\ child' = [status |-> "running", capture |-> capture, stdout |-> <<>>]
  /\ pc' = at
  /\ result' = NoResult
  /\ UNCHANGED handles

HasNone(args) == \E i \in 1..Len(args) : args[i] = None

Running == [status |-> "running", endedBy |-> "none"]

subprocess_Popen_waits(args) ==
  /\ launched' = <<args>>
  /\ child' = NoChild
  /\ pc' = "idle"
  /\ IF HasNone(args)
       THEN /\ result' = TypeError
            /\ UNCHANGED handles
       ELSE /\ handles' = Append(handles, [status |-> "exited", endedBy |-> "self"])
            /\ result' = PopenHandle(Len(handles'), handles'[Len(handles')].status = "running")

\* subprocess.Popen(args, ...): the process is started and the call returns
\* at once with its handle; an argument that is None raises TypeError before
\* anything is started.
subprocess_Popen(args) ==
  /\ launched' = <<args>>
  /\ child' = NoChild
  /\ pc' = "idle"
  /\ IF HasNone(args)
       THEN /\ result' = TypeError
            /\ UNCHANGED handles
       ELSE /\ handles' = Append(handles, Running)
            /\ result' = PopenHandle(Len(handles'), handles'[Len(handles')].status = "running")

(***************************************************************************)
(* MpvPlayer.play and its paths.                                           *)
(***************************************************************************)
YoutubeComponent == "com.google.android.youtube/.UrlActivity"

MpvComponent == "is.xyz.mpv/.MPVActivity"

IntentArgs(url, component) ==
  <<"nohup", "am", "start", "--user", "0", "-a", "android.intent.action.VIEW",
    "-d", url, "-n", component>>

_play_on_mobile_one_app(params) ==
  subprocess_run(IntentArgs(params.url, MpvComponent), FALSE, "in_mobile")

_play_on_mobile(params) ==
  IF YOUTUBE_REGEX_match(params.url)
    THEN subprocess_run(IntentArgs(params.url, YoutubeComponent), FALSE, "in_mobile")
    ELSE subprocess_run(IntentArgs(params.url, MpvComponent), FALSE, "in_mobile")

_stream_on_desktop_with_subprocess(params) ==
  subprocess_run(_pre_args \o _base_mpv_args(params), TRUE, "in_mpv")

_stream_on_desktop_with_webtorrent_cli_always_flag(params) ==
  LET webtorrent == shutil_which("webtorrent")
      mpv_args == _create_mpv_cli_options(params)
  IN  IF webtorrent = None
        THEN Raise(ViuError("Please install webtorrent-cli"))
        ELSE subprocess_run(<<webtorrent, params.url, "--mpv", "--player-args">>
                              \o mpv_args, FALSE, "in_webtorrent")

_stream_on_desktop_with_webtorrent_cli(params) ==
  LET webtorrent == shutil_which("webtorrent")
      mpv_args == _create_mpv_cli_options(params)
  IN  IF webtorrent = None
        THEN Raise(ViuError("Please install webtorrent-cli"))
        ELSE subprocess_run(
               <<webtorrent, params.url, "--mpv">>
                 \o (IF mpv_args # <<>> THEN <<"--player-args">> \o mpv_args
                                        ELSE <<>>),
               FALSE, "in_webtorrent")

_stream_on_desktop_with_syncplay(params) ==
  LET syncplay == shutil_which("syncplay")
      mpv_args == _base_mpv_args(params)
  IN  IF syncplay = None
        THEN Raise(ViuError("Please install syncplay"))
        ELSE subprocess_run(
               <<syncplay, params.url>>
                 \o (IF mpv_args # <<>> THEN <<"--">> \o mpv_args ELSE <<>>),
               FALSE, "in_syncplay")

_play_on_desktop_tools_first(params) ==
  IF TORRENT_REGEX_search(params.url)
    THEN _stream_on_desktop_with_webtorrent_cli(params)
  ELSE IF params.syncplay
    THEN _stream_on_desktop_with_syncplay(params)
  ELSE IF executable = None
    THEN Raise(ViuError("MPV executable not found in PATH."))
  ELSE _stream_on_desktop_with_subprocess(params)

_play_on_desktop(params) ==
  IF executable = None
    THEN Raise(ViuError("MPV executable not found in PATH."))
  ELSE IF TORRENT_REGEX_search(params.url)
    THEN _stream_on_desktop_with_webtorrent_cli(params)
  ELSE IF params.syncplay
    THEN _stream_on_desktop_with_syncplay(params)
  ELSE _stream_on_desktop_with_subprocess(params)

play_no_syncplay_guard(params) ==
  IF TORRENT_REGEX_match(params.url) /\ termux
    THEN Raise(ViuError("Unable to play torrents on termux"))
  ELSE IF termux
    THEN _play_on_mobile(params)
  ELSE _play_on_desktop(params)

play(params) ==
  IF TORRENT_REGEX_match(params.url) /\ termux
    THEN Raise(ViuError("Unable to play torrents on termux"))
  ELSE IF params.syncplay /\ termux
    THEN Raise(ViuError("Unable to play with syncplay on termux"))
  ELSE IF termux
    THEN _play_on_mobile(params)
  ELSE _play_on_desktop(params)

\* The lines of the captured output, in the order the parser visits them.
OutputLinesForward(stdout) == SplitSeq(stdout, NL)

OutputLines(stdout) == Reversed(SplitSeq(stdout, NL))

\* The loop of _stream_on_desktop_with_subprocess: <<stop_time, total_time>>.
RECURSIVE ScanLines(_)
ScanLines(lines) ==
  IF lines = <<>> THEN <<None, None>>
  ELSE LET match == MPV_AV_TIME_PATTERN_search(Strip(Head(lines)))
       IN  IF match.kind = "av" THEN <<match.elapsed, match.total>>
           ELSE ScanLines(Tail(lines))

ParseTimes(stdout) ==
  IF stdout # <<>> THEN ScanLines(OutputLines(stdout)) ELSE <<None, None>>

(***************************************************************************)
(* MpvPlayer.play_with_ipc.                                                *)
(***************************************************************************)
IpcMpvArgs_config_dir_first(params, socket_path) ==
  <<executable, "--config-dir=" \o _mpv_config_dir,
    "--input-ipc-server=" \o socket_path, "--idle=yes", "--force-window=yes",
    params.url>>
  \o _create_mpv_cli_options(params)

IpcMpvArgs(params, socket_path) ==
  <<executable, "--input-ipc-server=" \o socket_path, "--idle=yes",
    "--force-window=yes", "--config-dir=" \o _mpv_config_dir, params.url>>
  \o _create_mpv_cli_options(params)

play_with_ipc(params, socket_path) ==
  subprocess_Popen(_pre_args \o IpcMpvArgs(params, socket_path))

(***************************************************************************)
(* Actions.                                                                *)
(***************************************************************************)
\* A caller invokes MpvPlayer.play: the guards run and either the call fails
\* or a process is started and the call blocks on it.
Play(params) ==
  /\ pc = "idle"
  /\ call' = [op |-> "play", params |-> params, socket_path |-> None]
  /\ play(params)
  /\ UNCHANGED envVars

\* The process a blocking path waits for exits; `out` is what it wrote.
ChildExit(out) ==
  /\ pc # "idle"
  /\ child.status = "running"
  /\ child' = [child EXCEPT !.status = "exited",
                            !.stdout = IF child.capture THEN out ELSE <<>>]
  /\ UNCHANGED <<envVars, pc, call, launched, handles, result>>

\* subprocess.run returns and the blocking path builds its PlayerResult.
PlayReturn ==
  /\ pc # "idle"
  /\ child.status = "exited"
  /\ pc' = "idle"
  /\ result' = IF pc = "in_mpv"
                 THEN LET t == ParseTimes(child.stdout)
                      IN  PlayerResult(call.params.episode, t[2], t[1])
                 ELSE PlayerResult(call.params.episode, None, None)
  /\ UNCHANGED <<envVars, call, launched, child, handles>>

\* A caller invokes MpvPlayer.play_with_ipc.
PlayWithIPC(params, socket_path) ==
  /\ pc = "idle"
  /\ Len(handles) < MaxHandles
  /\ call' = [op |-> "play_with_ipc", params |-> params,
              socket_path |-> socket_path]
  /\ play_with_ipc(params, socket_path)
  /\ UNCHANGED envVars

\* A process started by play_with_ipc exits by itself.
HandleExit(i) ==
  /\ handles[i].status = "running"
  /\ handles' = [handles EXCEPT ![i] = [status |-> "exited", endedBy |-> "self"]]
  /\ UNCHANGED <<envVars, pc, call, launched, child, result>>

\* The caller terminates a process it got from play_with_ipc.
CallerTerminate(i) ==
  /\ handles[i].status = "running"
  /\ handles' = [handles EXCEPT ![i] = [status |-> "exited", endedBy |-> "caller"]]
  /\ UNCHANGED <<envVars, pc, call, launched, child, result>>

\* The option builder applied to the request at hand.
CreateOptions ==
  /\ call.op = "_create_mpv_cli_options"
  /\ result = NoResult
  /\ result' = [kind |-> "list", value |-> _create_mpv_cli_options(call.params)]
  /\ UNCHANGED <<envVars, pc, call, launched, child, handles>>

(***************************************************************************)
(* Inputs.                                                                 *)
(***************************************************************************)
Tools == {"mpv", "webtorrent", "syncplay"}

Sockets == {"/tmp/mpv.sock"}

Requests ==
  {PlayerParams(u, e, s, h, sub, st, ti) :
     u \in Urls, e \in {"ep1", "ep2"}, s \in BOOLEAN,
     h \in {<<>>},
     sub \in {<<>>, <<"a.srt">>},
     st \in {None},
     ti \in {None, "T"}}

Configs ==
  [args : {<<>>, <<"--fs", ",", "--mute">>},
   pre_args : {<<>>, <<"prime-run">>}]

Outputs == {<<>>, <<Txt>>, <<Av1, NL>>}

HeaderKeys == {"Referer", "Cookie", "Accept"}

HeaderSets ==
  {h \in SeqsUpTo(HeaderKeys, MaxHeaders) :
     \A i, j \in 1..Len(h) : i # j => h[i] # h[j]}

ArgRequests ==
  {PlayerParams(PlainUrl, "ep1", FALSE, [i \in 1..Len(h) |-> <<h[i], "v">>],
                sub, st, ti) :
     h \in HeaderSets,
     sub \in SeqsUpTo({"a.srt", "b.srt"}, MaxSubs),
     st \in {None, "30"},
     ti \in {None, "", "T"}}

ArgConfigs ==
  [args : SeqsUpTo({",", "--fs"}, MaxArgsLen), pre_args : {<<>>}]

DirectRequests ==
  {PlayerParams(PlainUrl, e, FALSE, <<>>, <<>>, None, None) : e \in {"ep1", "ep2"}}

RichOutputs == SeqsUpTo(OutChunks, MaxOut)

(***************************************************************************)
(* Specifications.                                                         *)
(***************************************************************************)
InitCall ==
  /\ pc = "idle"
  /\ call = NoCall
  /\ launched = <<>>
  /\ child = NoChild
  /\ handles = <<>>
  /\ result = NoResult

\* MpvPlayer.__init__ in any environment.
Init ==
  /\ termux \in BOOLEAN
  /\ installed \in SUBSET Tools
  /\ executable = shutil_which("mpv")
  /\ config \in Configs
  /\ InitCall

Next ==
  \/ \E p \in Requests : Play(p)
  \/ \E out \in Outputs : ChildExit(out)
  \/ PlayReturn
  \/ \E p \in Requests, s \in Sockets : PlayWithIPC(p, s)
  \/ \E i \in 1..Len(handles) : HandleExit(i)
  \/ \E i \in 1..Len(handles) : CallerTerminate(i)

Spec == Init /\ [][Next]_vars

\* The direct desktop path over every captured output.
InitParse ==
  /\ termux = FALSE
  /\ installed = Tools
  /\ executable = shutil_which("mpv")
  /\ config \in Configs
  /\ InitCall

NextParse ==
  \/ \E p \in DirectRequests : Play(p)
  \/ \E out \in RichOutputs : ChildExit(out)
  \/ PlayReturn

SpecParse == InitParse /\ [][NextParse]_vars

\* The option builder over every request and configuration.
InitArgs ==
  /\ termux = FALSE
  /\ installed = Tools
  /\ executable = shutil_which("mpv")
  /\ config \in ArgConfigs
  /\ pc = "idle"
  /\ call \in [op : {"_create_mpv_cli_options"}, params : ArgRequests,
               socket_path : {None}]
  /\ launched = <<>>
  /\ child = NoChild
  /\ handles = <<>>
  /\ result = NoResult

NextArgs == CreateOptions

SpecArgs == InitArgs /\ [][NextArgs]_vars

(***************************************************************************)
(* Claims.                                                                 *)
(***************************************************************************)
Req == call.params

Tokens == _create_mpv_cli_options(Req)

PlayCalled == call.op = "play"

IpcCalled == call.op = "play_with_ipc"

UnsupportedEnvironment ==
  /\ result.kind = "ViuError"
  /\ result.message \in {"Unable to play torrents on termux",
                         "Unable to play with syncplay on termux"}

ExecutableNotFound == result = ViuError("MPV executable not found in PATH.")

\* The call at hand raised before anything was handed to the launcher.
NothingSpawned ==
  /\ launched = <<>>
  /\ child.status = "none"
  /\ pc = "idle"

OnlyEpisode == result = PlayerResult(Req.episode, None, None)

\* C1: on mobile, a request whose URL matches the torrent pattern or that
\* asks for synchronized playback makes Play fail with UnsupportedEnvironment,
\* and nothing has been spawned when it fails.
C1_MobileGuards ==
  (PlayCalled /\ termux /\ (TORRENT_REGEX_match(Req.url) \/ Req.syncplay))
    => (UnsupportedEnvironment /\ NothingSpawned)

C1_Witness ==
  /\ PlayCalled /\ termux
  /\ Req.syncplay /\ ~TORRENT_REGEX_match(Req.url)
  /\ result = ViuError("Unable to play with syncplay on termux")

\* C2: on desktop with the player executable absent, Play fails with
\* ExecutableNotFound whatever the request and whether or not the companion
\* tools are installed, and nothing is spawned.
C2_ExecutableNotFoundFirst ==
  (PlayCalled /\ ~termux /\ executable = None)
    => (ExecutableNotFound /\ NothingSpawned)

C2_Witness ==
  /\ PlayCalled /\ ~termux /\ executable = None
  /\ TORRENT_REGEX_search(Req.url) /\ Req.syncplay
  /\ "webtorrent" \notin installed /\ "syncplay" \in installed
  /\ ExecutableNotFound

\* C3: on desktop with the player present and a torrent URL: without the
\* torrent tool Play fails with "Please install webtorrent-cli" and spawns
\* nothing; with it Play spawns exactly <tool> <url> --mpv, followed by
\* --player-args and the option tokens iff there are option tokens, and the
\* result carries only the episode.
C3_TorrentPath ==
  (PlayCalled /\ ~termux /\ executable # None /\ TORRENT_REGEX_search(Req.url))
    => IF "webtorrent" \notin installed
         THEN result = ViuError("Please install webtorrent-cli") /\ NothingSpawned
         ELSE /\ Len(launched) = 1
              /\ LET cmd == launched[1]
                 IN  /\ Len(cmd) = IF Tokens = <<>> THEN 3 ELSE 4 + Len(Tokens)
                     /\ SubSeq(cmd, 1, 3) = <<WhichPath("webtorrent"), Req.url, "--mpv">>
                     /\ Tokens # <<>> => /\ cmd[4] = "--player-args"
                                         /\ SubSeq(cmd, 5, Len(cmd)) = Tokens
              /\ child.status # "none"
              /\ pc = "idle" => OnlyEpisode

C3_Witness ==
  /\ PlayCalled /\ ~termux /\ executable # None
  /\ TORRENT_REGEX_search(Req.url) /\ "webtorrent" \in installed
  /\ Tokens = <<>>
  /\ pc = "idle" /\ OnlyEpisode
  /\ launched = << <<WhichPath("webtorrent"), Req.url, "--mpv">> >>

\* C4: on desktop with the player and the sync tool present, a non-torrent
\* request with synchronized playback spawns <tool> <url> [-- <arg>...]: the
\* "--" separator and the player arguments are there iff the request has
\* player arguments (the option tokens); with none the command line is
\* exactly <tool> <url>.
C4_SyncCommandLine ==
  (/\ PlayCalled /\ ~termux /\ executable # None
   /\ ~TORRENT_REGEX_search(Req.url) /\ Req.syncplay
   /\ "syncplay" \in installed)
    => /\ Len(launched) = 1
       /\ LET cmd == launched[1]
          IN  /\ SubSeq(cmd, 1, 2) = <<WhichPath("syncplay"), Req.url>>
              /\ (Len(cmd) > 2) <=> (Tokens # <<>>)
              /\ Len(cmd) > 2 => (cmd[3] = "--" /\ Len(cmd) > 3)

HasMarker(line) == \E k \in 1..Len(line) : line[k].kind = "av"

FirstMarker(line) ==
  line[CHOOSE k \in 1..Len(line) :
         /\ line[k].kind = "av"
         /\ \A m \in 1..(k - 1) : line[m].kind # "av"]

DirectPath ==
  /\ PlayCalled /\ ~termux /\ executable # None
  /\ ~TORRENT_REGEX_search(Req.url) /\ ~Req.syncplay

\* C5: on the direct desktop path, whatever the captured output: if some
\* line holds the progress marker, the result's elapsed and total times are
\* those of the last such line (no earlier line wins); otherwise, and for
\* empty output, both are unknown and Play still returns a result.  The two
\* times are both set or both unknown.
C5_LastMarkerWins ==
  (DirectPath /\ pc = "idle")
    => /\ result.kind = "PlayerResult"
       /\ result.episode = Req.episode
       /\ (result.stop_time = None) <=> (result.total_time = None)
       /\ LET lines == SplitSeq(child.stdout, NL)
              marked == {i \in 1..Len(lines) : HasMarker(lines[i])}
          IN  IF marked = {}
                THEN result.stop_time = None /\ result.total_time = None
                ELSE \E i \in marked :
                       /\ \A j \in marked : j <= i
                       /\ result.stop_time = FirstMarker(lines[i]).elapsed
                       /\ result.total_time = FirstMarker(lines[i]).total

C5_Witness ==
  /\ DirectPath /\ pc = "idle"
  /\ child.stdout = <<Av1, NL, Av2>>
  /\ result = PlayerResult(Req.episode, "00:10:00", "00:02:30")

\* C6: on mobile, a request that is neither a torrent URL nor a synchronized
\* one dispatches exactly one intent carrying the request URL, to the video
\* app iff the URL matches the video-hosting pattern and to the player app
\* otherwise; the result has the request's episode and no times.
C6_MobileIntent ==
  (PlayCalled /\ termux /\ ~TORRENT_REGEX_match(Req.url) /\ ~Req.syncplay)
    => /\ Len(launched) = 1
       /\ Len(launched[1]) = 11
       /\ SubSeq(launched[1], 1, 3) = <<"nohup", "am", "start">>
       /\ SubSeq(launched[1], 8, 10) = <<"-d", Req.url, "-n">>
       /\ launched[1][11] = IF YOUTUBE_REGEX_match(Req.url)
                              THEN YoutubeComponent ELSE MpvComponent
       /\ child.status # "none"
       /\ pc = "idle" => OnlyEpisode

C6_Witness ==
  /\ PlayCalled /\ termux /\ ~Req.syncplay
  /\ YOUTUBE_REGEX_match(Req.url)
  /\ launched[1][11] = YoutubeComponent
  /\ pc = "idle" /\ OnlyEpisode

\* C7: PlayWithIPC starts exactly one process and returns its handle while
\* that process is running, without waiting for it; every path of Play
\* returns only after the process it started has exited; a process handed out
\* by PlayWithIPC ends only by itself or by the caller.
C7_IpcNonBlocking ==
  /\ (IpcCalled /\ result.kind = "Popen")
       => /\ Len(launched) = 1
          /\ result.alive
          /\ result.handle \in 1..Len(handles)
          /\ pc = "idle"
  /\ (PlayCalled /\ result.kind = "PlayerResult")
       => /\ Len(launched) = 1
          /\ child.status = "exited"
  /\ pc # "idle" => PlayCalled /\ result = NoResult /\ child.status # "none"
  /\ \A i \in 1..Len(handles) :
       handles[i].status = "exited" => handles[i].endedBy \in {"self", "caller"}

C7_Witness ==
  /\ IpcCalled /\ result.kind = "Popen"
  /\ handles[result.handle].status = "running"
  /\ child.status = "none"

\* C8: the option tokens are, in this order: one headers flag (the pairs as
\* key:value joined by commas) if there are headers, one subtitle flag per
\* subtitle in input order, the start-time flag if set, the title flag if
\* set, then the configured extra arguments split on commas; an absent field
\* gives no token, so with nothing set the list is empty.
C8_TokenOrder ==
  (call.op = "_create_mpv_cli_options" /\ result.kind = "list")
    => LET t == result.value
           nh == IF Req.headers # <<>> THEN 1 ELSE 0
           ns == Len(Req.subtitles)
           nst == IF Truthy(Req.start_time) THEN 1 ELSE 0
           nt == IF Truthy(Req.title) THEN 1 ELSE 0
           extra == IF config.args = <<>> THEN <<>> ELSE SplitComma(config.args)
       IN  /\ Len(t) = nh + ns + nst + nt + Len(extra)
           /\ nh = 1 => t[1] = "--http-header-fields=" \o HeaderStr(Req.headers)
           /\ \A i \in 1..ns : t[nh + i] = "--sub-file=" \o Req.subtitles[i]
           /\ nst = 1 => t[nh + ns + 1] = "--start=" \o Req.start_time
           /\ nt = 1 => t[nh + ns + nst + 1] = "--title=" \o Req.title
           /\ \A j \in 1..Len(extra) : t[nh + ns + nst + nt + j] = extra[j]

C8_Witness ==
  /\ call.op = "_create_mpv_cli_options"
  /\ config.args = <<"--fs", ",", "--fs">>
  /\ Req.headers = << <<"Referer", "v">>, <<"Cookie", "v">> >>
  /\ Req.subtitles = <<"b.srt", "a.srt">>
  /\ result = [kind |-> "list",
               value |-> <<"--http-header-fields=Referer:v,Cookie:v",
                           "--sub-file=b.srt", "--sub-file=a.srt",
                           "--start=30", "--title=T", "--fs", "--fs">>]

\* The command line of a player the call at hand started.
PlayerCmd == launched[1]

DirectSpawned == DirectPath /\ launched # <<>>

IpcSpawned == IpcCalled /\ result.kind = "Popen"

IpcFlags ==
  <<"--input-ipc-server=" \o call.socket_path, "--idle=yes", "--force-window=yes">>

ConfigDirFlag == "--config-dir=" \o _mpv_config_dir

\* C9 as stated: the player's command line is [prefix] <player>
\* --config-dir=<dir> [the three IPC flags] <url> [options], the IPC flags
\* absent on the direct path and, on PlayWithIPC, placed after --config-dir
\* and before the URL.
C9_ConfigDirBeforeIpcFlags ==
  /\ DirectSpawned
       => PlayerCmd = _pre_args \o <<WhichPath("mpv"), ConfigDirFlag, Req.url>> \o Tokens
  /\ IpcSpawned
       => PlayerCmd = _pre_args \o <<WhichPath("mpv"), ConfigDirFlag>> \o IpcFlags
                        \o <<Req.url>> \o Tokens

\* C9 amended: on the direct path the command line is [prefix] <player>
\* --config-dir=<dir> <url> [options]; on PlayWithIPC it is [prefix] <player>
\* --input-ipc-server=<path> --idle=yes --force-window=yes --config-dir=<dir>
\* <url> [options]: the three IPC flags come right after <player> and before
\* --config-dir.
C9_IpcFlagsBeforeConfigDir ==
  LET n == Len(_pre_args)
      rest == SubSeq(PlayerCmd, n + 1, Len(PlayerCmd))
  IN  /\ (DirectSpawned \/ IpcSpawned)
           => /\ Len(launched) = 1
              /\ SubSeq(PlayerCmd, 1, n) = _pre_args
              /\ rest[1] = WhichPath("mpv")
      /\ DirectSpawned
           => /\ SubSeq(rest, 2, 3) = <<ConfigDirFlag, Req.url>>
              /\ SubSeq(rest, 4, Len(rest)) = Tokens
      /\ IpcSpawned
           => /\ SubSeq(rest, 2, 4) = IpcFlags
              /\ SubSeq(rest, 5, 6) = <<ConfigDirFlag, Req.url>>
              /\ SubSeq(rest, 7, Len(rest)) = Tokens

C9_Witness ==
  /\ IpcSpawned
  /\ _pre_args # <<>> /\ Tokens # <<>>
  /\ PlayerCmd[Len(_pre_args) + 2] = "--input-ipc-server=/tmp/mpv.sock"
  /\ PlayerCmd[Len(_pre_args) + 5] = ConfigDirFlag

\* C10: with the player executable absent, PlayWithIPC fails with
\* ExecutableNotFound before anything is handed to the process launcher, and
\* returns no handle.
C10_IpcFailFast ==
  (IpcCalled /\ executable = None)
    => (ExecutableNotFound /\ NothingSpawned)

====
